---- MODULE Spec2Model ----
(***************************************************************************)
(* Mirror Sync Bot (src/sync_mirrors.py): one run of main(), from reading  *)
(* the environment to the process exit.                                    *)
(*                                                                         *)
(* Text is modelled as Python models it: a string is a sequence of         *)
(* one-character strings, so that str.replace, substring containment and   *)
(* concatenation are computed character by character.  The two non-ASCII   *)
(* characters the program prints (U+2713, U+2717) are the one-element      *)
(* "characters" "U2713" and "U2717".                                       *)
(***************************************************************************)
EXTENDS Integers, Sequences, FiniteSets, TLC

(***************************************************************************)
(* Bounds of the model.                                                    *)
(***************************************************************************)
\* the listing endpoint returns at most this many repositories over all pages
MaxRepos == 2

(***************************************************************************)
(* Python values.                                                          *)
(***************************************************************************)
\* Python's None (an unset environment variable, dict.get of a missing key,
\* a JSON null): a value no string equals
None == <<"<None>">>

\* truthiness as a test for None only: the empty string passes
TruthyNotNone(s) == s # None

\* Python truthiness of an optional string: None and "" are falsy
Truthy(s) == s # None /\ s # <<>>

\* the decimal digits, for str(int)
Digits == <<"0", "1", "2", "3", "4", "5", "6", "7", "8", "9">>

RECURSIVE Str(_)
\* str(n) of a non-negative integer, as the f-strings format it
Str(n) == IF n < 10 THEN <<Digits[n + 1]>> ELSE Str(n \div 10) \o <<Digits[(n % 10) + 1]>>

RECURSIVE Rep(_, _)
\* c * n : a character repeated n times
Rep(c, n) == IF n = 0 THEN <<>> ELSE <<c>> \o Rep(c, n - 1)

RECURSIVE Join(_, _)
\* sep.join(parts)
Join(sep, parts) ==
    IF parts = <<>> THEN <<>>
    ELSE IF Len(parts) = 1 THEN parts[1]
    ELSE parts[1] \o sep \o Join(sep, Tail(parts))

\* sub in s
Contains(s, sub) ==
    \E k \in 0..(Len(s) - Len(sub)) : SubSeq(s, k + 1, k + Len(sub)) = sub

RECURSIVE Interleave(_, _)
\* s.replace("", new) minus its leading new: new after every character
Interleave(s, new) ==
    IF s = <<>> THEN <<>> ELSE <<Head(s)>> \o new \o Interleave(Tail(s), new)

RECURSIVE ReplaceScan(_, _, _)
\* the left-to-right scan of str.replace for a non-empty old: each occurrence
\* found is replaced and the scan resumes after it (the replacement is not
\* rescanned, occurrences do not overlap)
ReplaceScan(s, old, new) ==
    IF Len(s) < Len(old) THEN s
    ELSE IF SubSeq(s, 1, Len(old)) = old
         THEN new \o ReplaceScan(SubSeq(s, Len(old) + 1, Len(s)), old, new)
         ELSE <<Head(s)>> \o ReplaceScan(Tail(s), old, new)

\* s.replace(old, new)
Replace(s, old, new) ==
    IF old = <<>> THEN new \o Interleave(s, new) ELSE ReplaceScan(s, old, new)

(***************************************************************************)
(* Literals of the program.                                                *)
(***************************************************************************)
\* per_page = 100
per_page == 100

\* "***TOKEN***"
Placeholder == <<"*","*","*","T","O","K","E","N","*","*","*">>

\* "https://"
HttpsScheme == <<"h","t","t","p","s",":","/","/">>

\* "mirror"
MirrorLiteral == <<"m","i","r","r","o","r">>

\* '=' * 60
Rule == Rep("=", 60)

\* a printed line: the print statement it comes from and its text
Line(tag, text) == [tag |-> tag, text |-> text]

(***************************************************************************)
(* The environment the run is started in and the answers of the metadata   *)
(* service and of git: the inputs of the model.                            *)
(***************************************************************************)
\* values of GITHUB_TOKEN: unset, empty, "sk", "TOKEN"
TokenValues == {None, <<>>, <<"s","k">>, <<"T","O","K","E","N">>}

\* values of GITHUB_ORGANIZATION: unset, empty, "o"
OrgValues == {None, <<>>, <<"o">>}

\* HTTP status codes the metadata service answers with
StatusValues == {200, 404, 500}

\* repository objects of the listing: "name" and "clone_url", one with an
\* https URL ("https://h/a") and one with an http URL ("http://h/b")
RepoValues ==
    { [name |-> <<"a">>, clone_url |-> <<"h","t","t","p","s",":","/","/","h","/","a">>],
      [name |-> <<"b">>, clone_url |-> <<"h","t","t","p",":","/","/","h","/","b">>] }

RECURSIVE SeqsUpTo(_, _)
\* the sequences over S of length at most n
SeqsUpTo(S, n) ==
    IF n = 0 THEN {<<>>}
    ELSE LET shorter == SeqsUpTo(S, n - 1)
         IN  shorter \cup {Append(s, x) : s \in {t \in shorter : Len(t) = n - 1}, x \in S}

\* the JSON bodies of one listing page when room repositories are still to come
BatchValues(room) == SeqsUpTo(RepoValues, room)

\* an upstream URL: "https://u/a"
PlainSource == <<"h","t","t","p","s",":","/","/","u","/","a">>

\* an upstream URL that carries the credential: "https://<token>@u/b"
CredentialSource(token) == HttpsScheme \o token \o <<"@","u","/","b">>

\* one {property_name, value} object of the property-values answer
Prop(property_name, value) == [property_name |-> property_name, value |-> value]

\* the JSON bodies of the property-values endpoint
PropertyBodies(token) ==
    { <<>>,
      <<Prop("repo-type", MirrorLiteral), Prop("mirror-source", PlainSource)>>,
      <<Prop("mirror-source", CredentialSource(token)), Prop("repo-type", MirrorLiteral)>>,
      <<Prop("repo-type", MirrorLiteral), Prop("mirror-source", <<>>)>>,
      <<Prop("repo-type", MirrorLiteral), Prop("mirror-source", None)>>,
      <<Prop("repo-type", MirrorLiteral)>>,
      <<Prop("mirror-source", PlainSource)>>,
      <<Prop("repo-type", MirrorLiteral), Prop("repo-type", <<"f","o","r","k">>),
        Prop("mirror-source", PlainSource)>> }

\* exit statuses of git
ReturnCodes == {0, 128}

\* text git leaves on its stdout: nothing, or the credential
StdoutTexts(token) == { <<>>, token }

\* text git leaves on its stderr: nothing, or a message quoting the credential twice
StderrTexts(token) == { <<>>, <<"f","a","t","a","l",":"," ">> \o token \o <<" ">> \o token }

(***************************************************************************)
(* State.                                                                  *)
(***************************************************************************)
VARIABLES
    pc,             \* where the run is: the statement executed next
    github_token,   \* os.environ.get("GITHUB_TOKEN"), later self.github_token
    org_name,       \* os.environ.get("GITHUB_ORGANIZATION"), later self.org_name
    repos,          \* get_org_repos: repos, then get_mirror_repos: all_repos
    page,           \* get_org_repos: page
    i,              \* get_mirror_repos: position of the for loop in all_repos
    mirror_repos,   \* get_mirror_repos: mirror_repos, the work list
    j,              \* sync_all_mirrors: position of the for loop in mirror_repos
    success_count,  \* sync_all_mirrors: success_count
    failure_count,  \* sync_all_mirrors: failure_count
    temp_dir,       \* sync_mirror: the temporary directory in existence, or None
    created,        \* number of temporary directories created so far
    existing,       \* the temporary directories that exist on disk
    sync_ret,       \* the value sync_mirror returned, until it is tallied
    caught,         \* the CalledProcessError the last step caught: <<e>>, or <<>>
    exit_status,    \* the exit status of the process, -1 while it runs
    raised,         \* the exception that ended the run, "" if none
    printed,        \* the lines the last step wrote to stdout, in order
    requests,       \* history: the metadata requests made, with their answers
    props_log,      \* history: the property dict obtained for each repository
    calls           \* history: the git commands run, with their exit status

vars == <<pc, github_token, org_name, repos, page, i, mirror_repos, j,
          success_count, failure_count, temp_dir, created, existing, sync_ret, caught,
          exit_status, raised, printed, requests, props_log, calls>>

discovery == <<repos, page, i, mirror_repos, requests, props_log>>
syncing == <<j, success_count, failure_count, temp_dir, created, existing, sync_ret, caught,
             calls>>

Init ==
    /\ pc = "main"
    /\ github_token \in TokenValues
    /\ org_name \in OrgValues
    /\ repos = <<>>
    /\ page = 1
    /\ i = 1
    /\ mirror_repos = <<>>
    /\ j = 1
    /\ success_count = 0
    /\ failure_count = 0
    /\ temp_dir = None
    /\ created = 0
    /\ existing = {}
    /\ sync_ret = FALSE
    /\ caught = <<>>
    /\ exit_status = -1
    /\ raised = ""
    /\ printed = <<>>
    /\ requests = <<>>
    /\ props_log = <<>>
    /\ calls = <<>>

(***************************************************************************)
(* main                                                                    *)
(***************************************************************************)
\* sys.exit(status), or the interpreter ending on an uncaught exception
Exit(status, exception) ==
    /\ pc' = "exit"
    /\ exit_status' = status
    /\ raised' = exception

\* main(): the two configuration checks, the start line, the bot's construction
\* and the call of sync_all_mirrors up to its first request
Main ==
    /\ pc = "main"
    /\ IF ~Truthy(github_token)
       THEN /\ printed' = <<Line("no-token",
                  <<"E","r","r","o","r",":"," ","G","I","T","H","U","B","_","T","O","K","E","N"," ",
                    "e","n","v","i","r","o","n","m","e","n","t"," ","v","a","r","i","a","b","l","e"," ",
                    "i","s"," ","r","e","q","u","i","r","e","d">>)>>
            /\ Exit(1, "SystemExit")
       ELSE IF ~Truthy(org_name)
       THEN /\ printed' = <<Line("no-org",
                  <<"E","r","r","o","r",":"," ","G","I","T","H","U","B","_","O","R","G","A","N","I","Z",
                    "A","T","I","O","N"," ","e","n","v","i","r","o","n","m","e","n","t"," ",
                    "v","a","r","i","a","b","l","e"," ","i","s"," ","r","e","q","u","i","r","e","d">>)>>
            /\ Exit(1, "SystemExit")
       ELSE /\ printed' = <<Line("start",
                  <<"S","t","a","r","t","i","n","g"," ","M","i","r","r","o","r"," ","S","y","n","c"," ",
                    "B","o","t"," ","f","o","r"," ","o","r","g","a","n","i","z","a","t","i","o","n",":"," ">>
                  \o org_name)>>
            /\ pc' = "get_org_repos"
            /\ UNCHANGED <<exit_status, raised>>
    /\ UNCHANGED <<github_token, org_name>>
    /\ UNCHANGED discovery
    /\ UNCHANGED syncing

(***************************************************************************)
(* MirrorSyncBot.get_org_repos                                             *)
(***************************************************************************)
\* raise_for_status as a check for server errors only
RaisesForServerError(status) == 500 <= status /\ status < 600

\* response.raise_for_status(): HTTPError for a 4xx or 5xx status
RaisesForStatus(status) == 400 <= status /\ status < 600

\* repos.extend(batch)
Extend(list, batch) == list \o batch

\* the loop without its page += 1
NextPageSame(n) == n

\* page += 1
NextPage(n) == n + 1

\* the loop as one that also stops at a page shorter than per_page
EndOfListingShortPage(batch) == Len(batch) < per_page

\* lines 45-46: if not batch: break
EndOfListing(batch) == batch = <<>>

\* one turn of the while loop: the request for the current page, then
\* raise_for_status, the test for the empty batch, extend and page += 1;
\* the empty batch leaves the loop, prints the count and returns repos
ListPage ==
    /\ pc = "get_org_repos"
    /\ \E status \in StatusValues, batch \in BatchValues(MaxRepos - Len(repos)) :
         LET ok == ~RaisesForStatus(status)
             body == IF ok THEN batch ELSE <<>>
         IN  /\ requests' = Append(requests,
                    [kind |-> "list", page |-> page, per_page |-> per_page,
                     status |-> status, body |-> body])
             /\ IF ~ok
                THEN /\ Exit(1, "HTTPError")
                     /\ printed' = <<>>
                     /\ UNCHANGED <<repos, page>>
                ELSE IF EndOfListing(batch)
                THEN /\ pc' = "get_mirror_repos"
                     /\ printed' = <<Line("found-repos",
                            <<"F","o","u","n","d"," ">> \o Str(Len(repos))
                            \o <<" ","r","e","p","o","s","i","t","o","r","i","e","s"," ","i","n"," ",
                                 "o","r","g","a","n","i","z","a","t","i","o","n"," ","'">>
                            \o org_name \o <<"'">>)>>
                     /\ UNCHANGED <<repos, page, exit_status, raised>>
                ELSE /\ repos' = Extend(repos, batch)
                     /\ page' = NextPage(page)
                     /\ printed' = <<>>
                     /\ UNCHANGED <<pc, exit_status, raised>>
    /\ UNCHANGED <<github_token, org_name, i, mirror_repos, props_log>>
    /\ UNCHANGED syncing

(***************************************************************************)
(* MirrorSyncBot.get_repo_custom_properties                                *)
(***************************************************************************)
\* {prop["property_name"]: prop["value"] for prop in properties}: a later
\* object of the same name overwrites an earlier one
ToDict(body) ==
    [k \in {body[n].property_name : n \in DOMAIN body} |->
        body[CHOOSE n \in DOMAIN body :
                /\ body[n].property_name = k
                /\ \A m \in DOMAIN body : body[m].property_name = k => m <= n].value]

\* dict.get(key): the value, None for a missing key
DictGet(d, key) == IF key \in DOMAIN d THEN d[key] ELSE None

\* get_repo_custom_properties without the 404 branch of lines 66-68: every
\* HTTPError is raised again
GetRepoCustomPropertiesReraise(repo_name, status, body) ==
    IF ~RaisesForStatus(status)
    THEN [raises |-> FALSE, properties |-> ToDict(body), printed |-> <<>>]
    ELSE [raises |-> TRUE, properties |-> ToDict(<<>>), printed |-> <<>>]

\* the call for one repository, given the status and JSON body of the answer:
\* whether an HTTPError leaves the method, the dict returned and the lines printed
GetRepoCustomProperties(repo_name, status, body) ==
    IF ~RaisesForStatus(status)
    THEN [raises |-> FALSE, properties |-> ToDict(body), printed |-> <<>>]
    ELSE IF status = 404
    THEN [raises |-> FALSE, properties |-> ToDict(<<>>),
          printed |-> <<Line("no-properties",
              <<" "," ","N","o"," ","c","u","s","t","o","m"," ","p","r","o","p","e","r","t","i","e","s"," ",
                "f","o","u","n","d"," ","f","o","r"," ">> \o repo_name)>>]
    ELSE [raises |-> TRUE, properties |-> ToDict(<<>>), printed |-> <<>>]

(***************************************************************************)
(* MirrorSyncBot.get_mirror_repos                                          *)
(***************************************************************************)
\* HasSource as a test for None only: an empty string passes
HasSourceNotNone(mirror_source) == mirror_source # None

\* the test of line 84: if mirror_source
HasSource(mirror_source) == Truthy(mirror_source)

\* MarkedMirror without the comparison of line 82: any repository counts
MarkedMirrorAnyType(properties) == TRUE

\* the test of line 82: properties.get("repo-type") == "mirror"
MarkedMirror(properties) == DictGet(properties, "repo-type") = MirrorLiteral

\* Task with the source taken from the repository's own clone URL
TaskSourceFromCloneUrl(repo, mirror_source) ==
    [name |-> repo.name, clone_url |-> repo.clone_url, mirror_source |-> repo.clone_url]

\* lines 85-86: the repository object with its "mirror_source" key set
Task(repo, mirror_source) ==
    [name |-> repo.name, clone_url |-> repo.clone_url, mirror_source |-> mirror_source]

\* the work list built by putting each mirror in front
AppendMirrorFirst(list, repo) == <<repo>> \o list

\* line 86: mirror_repos.append(repo)
AppendMirror(list, repo) == Append(list, repo)

\* one turn of the for loop over all_repos: the property request of the
\* repository, then its classification
CheckRepo ==
    /\ pc = "get_mirror_repos"
    /\ i <= Len(repos)
    /\ \E status \in StatusValues, body \in PropertyBodies(github_token) :
         LET repo == repos[i]
             repo_name == repo.name
             got == GetRepoCustomProperties(repo_name, status,
                        IF RaisesForStatus(status) THEN <<>> ELSE body)
             properties == got.properties
             mirror_source == DictGet(properties, "mirror-source")
             checking == Line("checking",
                 <<"C","h","e","c","k","i","n","g"," ","r","e","p","o",":"," ">> \o repo_name)
         IN  /\ requests' = Append(requests,
                    [kind |-> "properties", repo_name |-> repo_name, status |-> status])
             /\ IF got.raises
                THEN /\ Exit(1, "HTTPError")
                     /\ printed' = <<checking>>
                     /\ UNCHANGED <<i, mirror_repos, props_log>>
                ELSE /\ props_log' = Append(props_log, properties)
                     /\ i' = i + 1
                     /\ UNCHANGED <<pc, exit_status, raised>>
                     /\ IF MarkedMirror(properties)
                        THEN IF HasSource(mirror_source)
                             THEN /\ mirror_repos' = AppendMirror(mirror_repos, Task(repo, mirror_source))
                                  /\ printed' = <<checking>> \o got.printed \o
                                        <<Line("mirror-found",
                                            <<" "," ","U2713"," ","M","i","r","r","o","r"," ",
                                              "f","o","u","n","d",":"," ">> \o repo_name
                                            \o <<" ","-",">"," ">> \o mirror_source)>>
                             ELSE /\ mirror_repos' = mirror_repos
                                  /\ printed' = <<checking>> \o got.printed \o
                                        <<Line("no-source",
                                            <<" "," ","U2717"," ","R","e","p","o"," ">> \o repo_name
                                            \o <<" ","i","s"," ","m","a","r","k","e","d"," ","a","s"," ",
                                                 "m","i","r","r","o","r"," ","b","u","t"," ","h","a","s"," ",
                                                 "n","o"," ","m","i","r","r","o","r","-","s","o","u","r","c","e">>)>>
                        ELSE /\ mirror_repos' = mirror_repos
                             /\ printed' = <<checking>> \o got.printed
    /\ UNCHANGED <<github_token, org_name, repos, page>>
    /\ UNCHANGED syncing

\* sync_all_mirrors without the early return of lines 162-164
NothingToDoNever(tasks) == FALSE

\* line 162: if not mirror_repos
NothingToDo(tasks) == tasks = <<>>

\* the end of the for loop: get_mirror_repos prints the count and returns, and
\* sync_all_mirrors (lines 160-167) returns on an empty work list, after which
\* main returns and the process ends with status 0, or sets up its counters
ReturnMirrors ==
    /\ pc = "get_mirror_repos"
    /\ i > Len(repos)
    /\ LET found == <<Line("found-mirrors", <<>>),
                      Line("found-mirrors",
                          <<"F","o","u","n","d"," ">> \o Str(Len(mirror_repos))
                          \o <<" ","m","i","r","r","o","r"," ","r","e","p","o","s","i","t","o","r","i","e","s">>)>>
       IN  IF NothingToDo(mirror_repos)
           THEN /\ printed' = found \o <<Line("no-mirrors",
                      <<"N","o"," ","m","i","r","r","o","r"," ","r","e","p","o","s","i","t","o","r","i","e","s"," ",
                        "f","o","u","n","d",".">>)>>
                /\ Exit(0, "")
           ELSE /\ printed' = found
                /\ pc' = "sync_mirror"
                /\ UNCHANGED <<exit_status, raised>>
    /\ success_count' = 0
    /\ failure_count' = 0
    /\ UNCHANGED <<github_token, org_name>>
    /\ UNCHANGED discovery
    /\ UNCHANGED <<j, temp_dir, created, existing, sync_ret, caught, calls>>

(***************************************************************************)
(* MirrorSyncBot.sync_mirror                                               *)
(***************************************************************************)
\* one directory name for every call
TempDirNameFixed(n) == <<"/","t","m","p","/","t","m","p">>

\* the name tempfile.TemporaryDirectory gives the n-th directory it creates
TempDirName(n) == <<"/","t","m","p","/","t","m","p">> \o Str(n)

\* text.replace(self.github_token, "***TOKEN***")
Sanitize(text, token) == Replace(text, token, Placeholder)

\* lines 100-104 and 110: the banner of a task and the clone progress line
Banner(mirror_repo) ==
    << Line("banner", <<>>),
       Line("banner", Rule),
       Line("banner", <<"S","y","n","c","i","n","g"," ","m","i","r","r","o","r",":"," ">> \o mirror_repo.name),
       Line("banner", <<"S","o","u","r","c","e",":"," ">> \o mirror_repo.mirror_source),
       Line("banner", <<"M","i","r","r","o","r",":"," ">> \o mirror_repo.clone_url),
       Line("banner", Rule),
       Line("progress", <<"C","l","o","n","i","n","g"," ","s","o","u","r","c","e"," ",
                          "r","e","p","o","s","i","t","o","r","y",".",".",".">>) >>

\* lines 117-119, 135-137: CalledProcessError(returncode, cmd, stdout, stderr)
CalledProcessError(returncode, cmd, stdout, stderr) ==
    [returncode |-> returncode, cmd |-> cmd, stdout |-> stdout, stderr |-> stderr]

\* lines 142-156: the report of a CalledProcessError(returncode, cmd, stdout, stderr)
FailureReport(repo_name, cmd, returncode, stdout, stderr, token) ==
    << Line("error", <<"U2717"," ","E","r","r","o","r"," ","s","y","n","c","i","n","g"," ">>
                     \o repo_name \o <<":">>),
       Line("command", <<" "," ","C","o","m","m","a","n","d",":"," ">>
                     \o Sanitize(Join(<<" ">>, cmd), token)),
       Line("returncode", <<" "," ","R","e","t","u","r","n"," ","c","o","d","e",":"," ">>
                     \o Str(returncode)) >>
    \o (IF stdout # <<>>
        THEN <<Line("stdout", <<" "," ","S","t","d","o","u","t",":"," ">> \o Sanitize(stdout, token))>>
        ELSE <<>>)
    \o (IF stderr # <<>>
        THEN <<Line("stderr", <<" "," ","S","t","d","e","r","r",":"," ">> \o Sanitize(stderr, token))>>
        ELSE <<>>)

\* lines 122-125: mirror_url.replace("https://", f"https://x-access-token:{token}@")
MirrorUrlWithAuth(mirror_url, token) ==
    Replace(mirror_url, HttpsScheme,
            <<"h","t","t","p","s",":","/","/","x","-","a","c","c","e","s","s","-","t","o","k","e","n",":">>
            \o token \o <<"@">>)

\* the with block replaced by a directory nobody removes
CleanupSkipped(dirs, dir) == dirs

\* line 107: leaving the with block removes the temporary directory
Cleanup(dirs, dir) == dirs \ {dir}

\* the test as a test for a negative status only
CommandFailedNegative(returncode) == returncode < 0

\* lines 116 and 134: if result.returncode != 0
CommandFailed(returncode) == returncode # 0

\* sync_mirror from its entry to the end of the clone: the banner, the
\* temporary directory, git clone --mirror; a non-zero status is reported,
\* the directory is removed and the method returns False
SyncClone ==
    /\ pc = "sync_mirror"
    /\ \E returncode \in ReturnCodes,
          stdout \in StdoutTexts(github_token), stderr \in StderrTexts(github_token) :
         LET mirror_repo == mirror_repos[j]
             dir == TempDirName(created + 1)
             cmd == << <<"g","i","t">>, <<"c","l","o","n","e">>, <<"-","-","m","i","r","r","o","r">>,
                       mirror_repo.mirror_source, dir >>
         IN  /\ created' = created + 1
             /\ calls' = Append(calls, [op |-> "clone", task |-> j, args |-> cmd,
                                        dir |-> dir, returncode |-> returncode])
             /\ IF CommandFailed(returncode)
                THEN /\ printed' = Banner(mirror_repo) \o
                            FailureReport(mirror_repo.name, cmd, returncode, stdout, stderr, github_token)
                     /\ caught' = <<CalledProcessError(returncode, cmd, stdout, stderr)>>
                     /\ temp_dir' = None
                     /\ existing' = Cleanup(existing \cup {dir}, dir)
                     /\ sync_ret' = FALSE
                     /\ pc' = "tally"
                ELSE /\ printed' = Banner(mirror_repo)
                     /\ caught' = <<>>
                     /\ temp_dir' = dir
                     /\ existing' = existing \cup {dir}
                     /\ sync_ret' = sync_ret
                     /\ pc' = "push"
    /\ UNCHANGED <<github_token, org_name, j, success_count, failure_count, exit_status, raised>>
    /\ UNCHANGED discovery

\* sync_mirror after a successful clone: the credentialed URL, git push
\* --mirror, the report or the success line, the removal of the directory
SyncPush ==
    /\ pc = "push"
    /\ \E returncode \in ReturnCodes,
          stdout \in StdoutTexts(github_token), stderr \in StderrTexts(github_token) :
         LET mirror_repo == mirror_repos[j]
             mirror_url_with_auth == MirrorUrlWithAuth(mirror_repo.clone_url, github_token)
             cmd == << <<"g","i","t">>, <<"-","C">>, temp_dir, <<"p","u","s","h">>,
                       <<"-","-","m","i","r","r","o","r">>, mirror_url_with_auth >>
             pushing == Line("progress", <<"P","u","s","h","i","n","g"," ","t","o"," ","m","i","r","r","o","r"," ",
                                           "r","e","p","o","s","i","t","o","r","y",".",".",".">>)
         IN  /\ calls' = Append(calls, [op |-> "push", task |-> j, args |-> cmd,
                                        dir |-> temp_dir, returncode |-> returncode])
             /\ IF CommandFailed(returncode)
                THEN /\ printed' = <<pushing>> \o
                            FailureReport(mirror_repo.name, cmd, returncode, stdout, stderr, github_token)
                     /\ caught' = <<CalledProcessError(returncode, cmd, stdout, stderr)>>
                     /\ sync_ret' = FALSE
                ELSE /\ printed' = <<pushing,
                            Line("synced", <<"U2713"," ","S","u","c","c","e","s","s","f","u","l","l","y"," ",
                                             "s","y","n","c","e","d"," ">> \o mirror_repo.name)>>
                     /\ caught' = <<>>
                     /\ sync_ret' = TRUE
             /\ temp_dir' = None
             /\ existing' = Cleanup(existing, temp_dir)
             /\ pc' = "tally"
    /\ UNCHANGED <<github_token, org_name, j, success_count, failure_count, created, exit_status, raised>>
    /\ UNCHANGED discovery

(***************************************************************************)
(* MirrorSyncBot.sync_all_mirrors                                          *)
(***************************************************************************)
\* AfterTask as a loop that ends one task early
AfterTaskSkipsLast(pos, n, returned) == IF pos + 1 < n THEN "sync_mirror" ELSE "summary"

\* AfterTask as a loop that gives up at the first failure
AfterTaskStopOnFailure(pos, n, returned) ==
    IF returned /\ pos + 1 <= n THEN "sync_mirror" ELSE "summary"

\* the for loop of line 169 after the task at position pos of n returned: the
\* next task if there is one, whatever was returned, else the summary
AfterTask(pos, n, returned) == IF pos + 1 <= n THEN "sync_mirror" ELSE "summary"

\* SummaryStatus without the sys.exit(1) of line 183
SummaryStatusAlwaysZero(failed) == 0

\* lines 182-183: sys.exit(1) if a mirror failed, else the run ends normally
SummaryStatus(failed) == IF failed > 0 THEN 1 ELSE 0

\* a counter that counts every task twice
IncrementByTwo(n) == n + 2

\* lines 171 and 173: success_count += 1, failure_count += 1
Increment(n) == n + 1

\* lines 169-173: the returned value is counted and the for loop advances
Tally ==
    /\ pc = "tally"
    /\ IF sync_ret
       THEN /\ success_count' = Increment(success_count)
            /\ failure_count' = failure_count
       ELSE /\ failure_count' = Increment(failure_count)
            /\ success_count' = success_count
    /\ j' = j + 1
    /\ pc' = AfterTask(j, Len(mirror_repos), sync_ret)
    /\ printed' = <<>>
    /\ caught' = <<>>
    /\ UNCHANGED <<github_token, org_name, temp_dir, created, existing, sync_ret, calls,
                   exit_status, raised>>
    /\ UNCHANGED discovery

\* lines 175-183: the summary, then sys.exit(1) if a mirror failed, else the
\* return to main and the end of the process with status 0
Summary ==
    /\ pc = "summary"
    /\ printed' =
         << Line("summary", <<>>),
            Line("summary", Rule),
            Line("summary", <<"S","y","n","c"," ","S","u","m","m","a","r","y",":">>),
            Line("total", <<" "," ","T","o","t","a","l"," ","m","i","r","r","o","r","s",":"," ">>
                          \o Str(Len(mirror_repos))),
            Line("successful", <<" "," ","S","u","c","c","e","s","s","f","u","l",":"," ">>
                          \o Str(success_count)),
            Line("failed", <<" "," ","F","a","i","l","e","d",":"," ">> \o Str(failure_count)),
            Line("summary", Rule) >>
    /\ Exit(SummaryStatus(failure_count), IF SummaryStatus(failure_count) = 0 THEN "" ELSE "SystemExit")
    /\ UNCHANGED <<github_token, org_name>>
    /\ UNCHANGED discovery
    /\ UNCHANGED syncing

Next ==
    \/ Main
    \/ ListPage
    \/ CheckRepo
    \/ ReturnMirrors
    \/ SyncClone
    \/ SyncPush
    \/ Tally
    \/ Summary

Spec == Init /\ [][Next]_vars

\* the run under the assumption that every call the program waits for (a
\* metadata request, a git command) returns: the interpreter then always
\* executes its next statement
FairSpec == Spec /\ WF_vars(Next)

(***************************************************************************)
(* What the histories say, for the properties below.                       *)
(***************************************************************************)
\* the git clone commands run so far: one per call of sync_mirror
CloneCalls == SelectSeq(calls, LAMBDA c : c.op = "clone")

\* the git push commands run so far
PushCalls == SelectSeq(calls, LAMBDA c : c.op = "push")

\* the sync of task t ended in success: its push exited with status 0
Succeeded(t) ==
    \E n \in DOMAIN calls : calls[n].task = t /\ calls[n].op = "push" /\ calls[n].returncode = 0

\* the sync of task t ended in failure: one of its commands exited non-zero
Failed(t) == \E n \in DOMAIN calls : calls[n].task = t /\ calls[n].returncode # 0

\* the lines of the last step that come from the print statement tag
Printed(tag) == SelectSeq(printed, LAMBDA l : l.tag = tag)

\* the summary is the last thing the run did
SummaryEmitted == pc = "exit" /\ Printed("total") # <<>>

\* text ends with a space and the decimal form of n
EndsWithNumber(text, n) ==
    LET d == Str(n)
    IN  /\ Len(text) > Len(d)
        /\ SubSeq(text, Len(text) - Len(d) + 1, Len(text)) = d
        /\ text[Len(text) - Len(d)] = " "

\* the configuration checks of main passed
Configured == Truthy(github_token) /\ Truthy(org_name)

\* get_mirror_repos has returned: the listing ended with an empty page and
\* every repository listed had its properties looked up
DiscoveryCompleted ==
    /\ \E n \in DOMAIN requests :
          requests[n].kind = "list" /\ requests[n].status = 200 /\ requests[n].body = <<>>
    /\ Len(props_log) = Len(repos)
    /\ pc # "get_mirror_repos"

(***************************************************************************)
(* C1. Failure isolation: sync_mirror is invoked on the tasks of the work  *)
(* list in turn, once each, whatever the earlier tasks returned; a run     *)
(* that has a work list ends with the summary, by which time every one of  *)
(* the N tasks was attempted exactly once, and the summary reports         *)
(* total = N, succeeded = the number of tasks that synced, failed = the    *)
(* number that did not.                                                    *)
(***************************************************************************)
C1_FailureIsolation ==
    LET N == Len(mirror_repos)
    IN  /\ Len(CloneCalls) <= N
        /\ \A k \in DOMAIN CloneCalls : CloneCalls[k].task = k
        /\ (pc = "exit" /\ DiscoveryCompleted /\ N >= 1) => SummaryEmitted
        /\ SummaryEmitted =>
              /\ Len(CloneCalls) = N
              /\ \A t \in 1..N : Succeeded(t) # Failed(t)
              /\ EndsWithNumber(Printed("total")[1].text, N)
              /\ EndsWithNumber(Printed("successful")[1].text,
                                Cardinality({t \in 1..N : Succeeded(t)}))
              /\ EndsWithNumber(Printed("failed")[1].text,
                                Cardinality({t \in 1..N : Failed(t)}))

\* a run of two tasks whose first failed and whose second was still synced
C1_Witness ==
    /\ SummaryEmitted
    /\ Len(mirror_repos) = 2
    /\ Failed(1)
    /\ Succeeded(2)

(***************************************************************************)
(* C2. Exit status: the process has no status while it runs and ends with  *)
(* 0 or 1: 1 if the credential or the organization is missing, 0 if        *)
(* discovery completed with no mirror, and after the summary 1 exactly     *)
(* when a mirror failed, 0 when all of them synced.                        *)
(***************************************************************************)
C2_ExitStatus ==
    /\ pc # "exit" => exit_status = -1
    /\ pc = "exit" =>
          /\ exit_status \in {0, 1}
          /\ ~Configured => exit_status = 1
          /\ (DiscoveryCompleted /\ mirror_repos = <<>>) => exit_status = 0
          /\ SummaryEmitted =>
                /\ exit_status = 1 <=> failure_count > 0
                /\ exit_status = 1 <=> \E t \in 1..Len(mirror_repos) : Failed(t)
                /\ exit_status = 0 <=> \A t \in 1..Len(mirror_repos) : Succeeded(t)

\* a run that ended with status 1 after a summary counting one success and one failure
C2_Witness ==
    /\ SummaryEmitted
    /\ exit_status = 1
    /\ Succeeded(1)
    /\ Failed(2)

(***************************************************************************)
(* C3. Sanitization of failure reports: when a clone or push step fails,   *)
(* the three texts rendered for the failure (the joined command, the       *)
(* captured stdout, the captured stderr) carry the placeholder wherever    *)
(* the raw text held the credential, and none of the rendered lines        *)
(* contains the credential.                                                *)
(***************************************************************************)
C3_SanitizedFailureReports ==
    caught # <<>> =>
        LET e == caught[1]
        IN  /\ \A n \in DOMAIN printed :
                  printed[n].tag \in {"command", "stdout", "stderr"}
                      => ~Contains(printed[n].text, github_token)
            /\ Contains(Join(<<" ">>, e.cmd), github_token)
                  => Contains(Printed("command")[1].text, Placeholder)
            /\ Contains(e.stdout, github_token)
                  => Printed("stdout") # <<>> /\ Contains(Printed("stdout")[1].text, Placeholder)
            /\ Contains(e.stderr, github_token)
                  => Printed("stderr") # <<>> /\ Contains(Printed("stderr")[1].text, Placeholder)

(***************************************************************************)
(* C4. Credential never reported: no line written to the diagnostic        *)
(* stream by any step of the run contains the access credential.           *)
(***************************************************************************)
C4_CredentialNeverPrinted ==
    Truthy(github_token) =>
        \A n \in DOMAIN printed : ~Contains(printed[n].text, github_token)

(***************************************************************************)
(* What the property maps obtained so far say, read off the maps           *)
(* themselves.                                                             *)
(***************************************************************************)
\* the map has repo-type equal to the literal "mirror"
TypeIsMirror(properties) ==
    "repo-type" \in DOMAIN properties /\ properties["repo-type"] = <<"m","i","r","r","o","r">>

\* the map has a mirror-source that is a non-empty string
SourceIsNonEmpty(properties) ==
    /\ "mirror-source" \in DOMAIN properties
    /\ properties["mirror-source"] # None
    /\ properties["mirror-source"] # <<>>

\* the mirror predicate of the classification
Qualifies(properties) == TypeIsMirror(properties) /\ SourceIsNonEmpty(properties)

\* the repositories among the first n classified that satisfy the predicate
Qualifying(n) == {m \in 1..n : Qualifies(props_log[m])}

\* this step classified a repository: its property map is the last of props_log'
Classifies == Len(props_log') = Len(props_log) + 1

\* the number of lines of the step that come from the print statement tag
CountPrinted(lines, tag) == Cardinality({n \in DOMAIN lines : lines[n].tag = tag})

(***************************************************************************)
(* C5. Positive classification: every listed repository whose property map *)
(* has repo-type = "mirror" and a non-empty mirror-source has exactly one  *)
(* task in the work list: there are as many tasks as such repositories,    *)
(* and the task of the n-th listed repository carries that mirror-source   *)
(* as its source and the repository's clone URL as its destination.        *)
(***************************************************************************)
C5_PositiveClassification ==
    /\ Len(mirror_repos) = Cardinality(Qualifying(Len(props_log)))
    /\ \A n \in DOMAIN props_log :
          Qualifies(props_log[n]) =>
              LET k == Cardinality(Qualifying(n))
              IN  /\ k \in DOMAIN mirror_repos
                  /\ mirror_repos[k].mirror_source = props_log[n]["mirror-source"]
                  /\ mirror_repos[k].clone_url = repos[n].clone_url
                  /\ mirror_repos[k].name = repos[n].name

\* two listed repositories, both mirrors with different sources, gave two tasks
C5_Witness ==
    /\ Len(props_log) = 2
    /\ Qualifies(props_log[1])
    /\ Qualifies(props_log[2])
    /\ props_log[1]["mirror-source"] # props_log[2]["mirror-source"]
    /\ repos[1] # repos[2]
    /\ Len(mirror_repos) = 2

(***************************************************************************)
(* C6. Negative classification: the classification of a repository whose   *)
(* property map has a repo-type other than "mirror", or none, adds no task *)
(* to the work list, whatever else the map holds.                          *)
(***************************************************************************)
C6_NegativeClassification ==
    [][ (Classifies /\ ~TypeIsMirror(props_log'[Len(props_log')]))
            => mirror_repos' = mirror_repos ]_vars

\* two repositories with a non-empty mirror-source, one without repo-type and
\* one of another type, were classified and the work list is empty
C6_Witness ==
    /\ Len(props_log) = 2
    /\ mirror_repos = <<>>
    /\ \E n \in 1..2 :
          "repo-type" \notin DOMAIN props_log[n] /\ SourceIsNonEmpty(props_log[n])
    /\ \E n \in 1..2 :
          /\ "repo-type" \in DOMAIN props_log[n]
          /\ ~TypeIsMirror(props_log[n])
          /\ SourceIsNonEmpty(props_log[n])

(***************************************************************************)
(* C7. Non-empty source: after every step each task of the work list, and  *)
(* each source handed to git clone, is a non-empty string; the             *)
(* classification of a repository marked as mirror whose mirror-source is  *)
(* absent, null or empty adds no task, prints one line saying so, and      *)
(* leaves the run in discovery, at the next repository.                    *)
(***************************************************************************)
C7_NonEmptySource ==
    [][ /\ \A k \in DOMAIN mirror_repos' :
              mirror_repos'[k].mirror_source # None /\ mirror_repos'[k].mirror_source # <<>>
        /\ \A n \in DOMAIN calls' :
              calls'[n].op = "clone" => (calls'[n].args[4] # None /\ calls'[n].args[4] # <<>>)
        /\ (/\ Classifies
            /\ TypeIsMirror(props_log'[Len(props_log')])
            /\ ~SourceIsNonEmpty(props_log'[Len(props_log')]))
              => /\ mirror_repos' = mirror_repos
                 /\ CountPrinted(printed', "no-source") = 1
                 /\ pc' = "get_mirror_repos"
                 /\ i' = i + 1
                 /\ exit_status' = -1 ]_vars

\* a repository marked as mirror without a source was dropped and the next
\* repository became the only task
C7_Witness ==
    /\ Len(props_log) = 2
    /\ TypeIsMirror(props_log[1])
    /\ ~SourceIsNonEmpty(props_log[1])
    /\ Qualifies(props_log[2])
    /\ Len(mirror_repos) = 1
    /\ Len(CloneCalls) = 1

(***************************************************************************)
(* What the request history says.                                          *)
(***************************************************************************)
\* the listing requests made so far, in order
ListRequests == SelectSeq(requests, LAMBDA r : r.kind = "list")

\* the property-values requests made so far, in order: the m-th is for the
\* m-th listed repository
PropertyRequests == SelectSeq(requests, LAMBDA r : r.kind = "properties")

\* this step made a property-values request that was answered with 404
Answers404 ==
    /\ Len(PropertyRequests') = Len(PropertyRequests) + 1
    /\ PropertyRequests'[Len(PropertyRequests')].status = 404

RECURSIVE Concat(_)
\* the bodies of a sequence of answers, one after the other
Concat(answers) ==
    IF answers = <<>> THEN <<>> ELSE answers[1].body \o Concat(Tail(answers))

RECURSIVE SumOfSizes(_)
\* the total number of items in a sequence of answers
SumOfSizes(answers) ==
    IF answers = <<>> THEN 0 ELSE Len(answers[1].body) + SumOfSizes(Tail(answers))

(***************************************************************************)
(* C8. 404 tolerance: a property-values request answered with 404 raises   *)
(* nothing: the repository gets the empty property map, the line "No       *)
(* custom properties found" is printed, no task is added, and the run      *)
(* stays in discovery and moves to the next repository.                    *)
(***************************************************************************)
C8_NotFoundTolerated ==
    [][ Answers404 =>
          /\ props_log' = Append(props_log, <<>>)
          /\ DOMAIN props_log'[Len(props_log')] = {}
          /\ mirror_repos' = mirror_repos
          /\ CountPrinted(printed', "no-properties") = 1
          /\ pc' = "get_mirror_repos"
          /\ i' = i + 1
          /\ exit_status' = -1
          /\ raised' = "" ]_vars

\* the first repository's properties were answered with 404 and the second
\* repository was then classified as a mirror
C8_Witness ==
    /\ Len(PropertyRequests) = 2
    /\ PropertyRequests[1].status = 404
    /\ PropertyRequests[2].status = 200
    /\ Len(props_log) = 2
    /\ Len(mirror_repos) = 1

(***************************************************************************)
(* C9. Transport errors are fatal: once a listing request was answered     *)
(* with a non-success status (404 included), or a property-values request  *)
(* with a non-success status other than 404, the run is over with status   *)
(* 1: that request is the last metadata request made (none follows, none   *)
(* is repeated), no git command was or is ever run, and no summary was     *)
(* printed.                                                                *)
(***************************************************************************)
C9_TransportErrorFatal ==
    \A n \in DOMAIN requests :
        (/\ requests[n].status \notin 200..299
         /\ ~(requests[n].kind = "properties" /\ requests[n].status = 404))
            => /\ n = Len(requests)
               /\ pc = "exit"
               /\ exit_status = 1
               /\ raised = "HTTPError"
               /\ calls = <<>>
               /\ temp_dir = None
               /\ created = 0
               /\ ~SummaryEmitted
               /\ CountPrinted(printed, "no-mirrors") = 0

\* a property-values request failed with 500 after an earlier repository had
\* already been put on the work list
C9_Witness ==
    /\ Len(requests) >= 1
    /\ requests[Len(requests)].kind = "properties"
    /\ requests[Len(requests)].status = 500
    /\ mirror_repos # <<>>
    /\ pc = "exit"

(***************************************************************************)
(* C10. Pagination: the listing requests are for pages 1, 2, 3, ... in     *)
(* this order, each once; every request but the last was answered with a   *)
(* non-empty page, so none follows an empty page; repos is the             *)
(* concatenation of the pages received, in page order, with as many items  *)
(* as the pages together; and get_org_repos is left only by an error       *)
(* status or by an empty page, the (k+1)-th request after k non-empty      *)
(* pages (a short page does not end the loop).                             *)
(***************************************************************************)
C10_Pagination ==
    /\ \A n \in DOMAIN ListRequests :
          /\ ListRequests[n].page = n
          /\ ListRequests[n].per_page = 100
    /\ \A n \in 1..(Len(ListRequests) - 1) :
          ListRequests[n].status = 200 /\ ListRequests[n].body # <<>>
    /\ repos = Concat(ListRequests)
    /\ Len(repos) = SumOfSizes(ListRequests)
    /\ pc = "get_org_repos" => page = Len(ListRequests) + 1
    /\ (pc \notin {"main", "get_org_repos"} /\ Configured) =>
          /\ ListRequests # <<>>
          /\ ListRequests[Len(ListRequests)].status = 200 =>
                /\ ListRequests[Len(ListRequests)].body = <<>>
                /\ Len(ListRequests) =
                      Cardinality({n \in DOMAIN ListRequests : ListRequests[n].body # <<>>}) + 1

\* two pages of one repository each (shorter than per_page), then the empty
\* page: three requests, two repositories, and the listing has returned
C10_Witness ==
    /\ Len(ListRequests) = 3
    /\ Len(ListRequests[1].body) = 1
    /\ Len(ListRequests[2].body) = 1
    /\ Len(ListRequests[1].body) < ListRequests[1].per_page
    /\ ListRequests[3].body = <<>>
    /\ ListRequests[3].status = 200
    /\ Len(repos) = 2
    /\ pc = "get_mirror_repos"

(***************************************************************************)
(* C11. Transfer is all-or-nothing: git push is run only directly after    *)
(* the clone of the same task exited with status 0; when sync_mirror has   *)
(* returned, it returned True exactly when its last command was the push   *)
(* and exited with 0, and False exactly when its last command (the clone,  *)
(* with no push run, or the push) exited non-zero; the success line is     *)
(* printed in the first case and the error report in the second.           *)
(***************************************************************************)
C11_AllOrNothing ==
    /\ \A n \in DOMAIN calls :
          calls[n].op = "push" =>
              /\ n > 1
              /\ calls[n - 1].op = "clone"
              /\ calls[n - 1].task = calls[n].task
              /\ calls[n - 1].returncode = 0
    /\ pc = "push" =>
          /\ calls[Len(calls)].op = "clone"
          /\ calls[Len(calls)].task = j
          /\ calls[Len(calls)].returncode = 0
    /\ pc = "tally" =>
          LET last == calls[Len(calls)]
          IN  /\ last.task = j
              /\ sync_ret \in BOOLEAN
              /\ sync_ret <=> (last.op = "push" /\ last.returncode = 0)
              /\ ~sync_ret <=> last.returncode # 0
              /\ sync_ret <=> CountPrinted(printed, "synced") = 1
              /\ ~sync_ret <=> CountPrinted(printed, "error") = 1

\* the first task failed in its clone and no push was run for it; the second
\* task cloned and then failed in its push
C11_Witness ==
    /\ pc = "tally"
    /\ Len(calls) = 3
    /\ calls[1].op = "clone" /\ calls[1].returncode # 0
    /\ calls[2].op = "clone" /\ calls[2].returncode = 0
    /\ calls[3].op = "push" /\ calls[3].returncode # 0
    /\ ~sync_ret

(***************************************************************************)
(* C12. Workspace lifetime: every call of sync_mirror creates a temporary  *)
(* directory of its own (the commands of two calls never share one, the    *)
(* commands of one call use the same one), and the directory is gone when  *)
(* the call has returned: a directory exists only between the clone and    *)
(* the push of one call, so at most one exists at any moment and none      *)
(* when the run has ended.                                                 *)
(***************************************************************************)
C12_WorkspaceLifetime ==
    /\ Cardinality(existing) <= 1
    /\ existing = (IF pc = "push" THEN {calls[Len(calls)].dir} ELSE {})
    /\ pc = "push" => temp_dir = calls[Len(calls)].dir
    /\ pc \in {"tally", "summary", "exit"} => existing = {}
    /\ created = Len(CloneCalls)
    /\ \A m, n \in DOMAIN calls :
          (calls[m].dir = calls[n].dir) <=> (calls[m].task = calls[n].task)
    /\ \A n \in DOMAIN calls :
          /\ calls[n].op = "clone" => calls[n].args[5] = calls[n].dir
          /\ calls[n].op = "push" => calls[n].args[3] = calls[n].dir

\* the first task failed in its clone and its directory is gone; the second
\* task is between its clone and its push, in another directory, which exists
C12_Witness ==
    /\ pc = "push"
    /\ j = 2
    /\ Len(calls) = 2
    /\ calls[1].returncode # 0
    /\ calls[1].dir # calls[2].dir
    /\ existing = {calls[2].dir}

\* the environment variable is unset or set to the empty string
Unset(value) == value = None \/ value = <<>>

(***************************************************************************)
(* C13. Missing configuration: when the credential or the organization is  *)
(* unset or empty, the run never gets past main: it makes no metadata      *)
(* request, runs no git command and creates no directory, and it ends with *)
(* status 1 after printing one line that names the missing variable (the   *)
(* credential's when both are missing).                                    *)
(***************************************************************************)
C13_MissingConfiguration ==
    (Unset(github_token) \/ Unset(org_name)) =>
        /\ pc \in {"main", "exit"}
        /\ requests = <<>>
        /\ calls = <<>>
        /\ created = 0
        /\ existing = {}
        /\ pc = "exit" =>
              /\ exit_status = 1
              /\ raised = "SystemExit"
              /\ Len(printed) = 1
              /\ printed[1].tag = (IF Unset(github_token) THEN "no-token" ELSE "no-org")
              /\ Contains(printed[1].text,
                          IF Unset(github_token)
                          THEN <<"G","I","T","H","U","B","_","T","O","K","E","N"," ">>
                          ELSE <<"G","I","T","H","U","B","_","O","R","G","A","N","I","Z","A","T","I","O","N"," ">>)

\* a run with a credential and an empty organization has ended in main
C13_Witness ==
    /\ pc = "exit"
    /\ ~Unset(github_token)
    /\ org_name = <<>>
    /\ exit_status = 1
    /\ requests = <<>>
    /\ CountPrinted(printed, "no-org") = 1

(***************************************************************************)
(* C14. Empty discovery: once discovery has completed with an empty work   *)
(* list (nothing listed, or nothing listed qualifies) the run is over with *)
(* status 0: it printed "No mirror repositories found." and no summary,    *)
(* it ran no git command and it created no temporary directory.            *)
(***************************************************************************)
C14_EmptyDiscovery ==
    (DiscoveryCompleted /\ mirror_repos = <<>>) =>
        /\ pc = "exit"
        /\ exit_status = 0
        /\ raised = ""
        /\ calls = <<>>
        /\ created = 0
        /\ existing = {}
        /\ temp_dir = None
        /\ CountPrinted(printed, "no-mirrors") = 1
        /\ CountPrinted(printed, "total") = 0
        /\ success_count = 0
        /\ failure_count = 0

\* two repositories were listed and classified, neither is a mirror, and the
\* run has ended
C14_Witness ==
    /\ DiscoveryCompleted
    /\ Len(repos) = 2
    /\ Len(props_log) = 2
    /\ mirror_repos = <<>>
    /\ pc = "exit"
    /\ exit_status = 0

RECURSIVE MirrorsInListingOrder(_)
\* the first n listed repositories that satisfy the mirror predicate, in the
\* order of the listing, each with the source its property map gives
MirrorsInListingOrder(n) ==
    IF n = 0 THEN <<>>
    ELSE IF Qualifies(props_log[n])
         THEN Append(MirrorsInListingOrder(n - 1),
                     [name |-> repos[n].name, clone_url |-> repos[n].clone_url,
                      mirror_source |-> props_log[n]["mirror-source"]])
         ELSE MirrorsInListingOrder(n - 1)

(***************************************************************************)
(* C15. Order preservation: the listing is the pages in page order; the    *)
(* m-th property request is for the m-th listed repository; the work list  *)
(* is the subsequence of the listing formed by the repositories satisfying *)
(* the mirror predicate; and the k-th call of sync_mirror is on the k-th   *)
(* task of the work list (it clones that task's source, and its push, if   *)
(* any, follows before the next clone).                                    *)
(***************************************************************************)
C15_OrderPreservation ==
    /\ repos = Concat(ListRequests)
    /\ Len(PropertyRequests) <= Len(repos)
    /\ \A m \in DOMAIN PropertyRequests : PropertyRequests[m].repo_name = repos[m].name
    /\ mirror_repos = MirrorsInListingOrder(Len(props_log))
    /\ Len(CloneCalls) <= Len(mirror_repos)
    /\ \A k \in DOMAIN CloneCalls :
          /\ CloneCalls[k].task = k
          /\ CloneCalls[k].args[4] = MirrorsInListingOrder(Len(props_log))[k].mirror_source
    /\ \A m, n \in DOMAIN calls : m <= n => calls[m].task <= calls[n].task

\* the listing gave "b" on its first page and "a" on its second; both are
\* mirrors, of different sources, and both were cloned, "b" first
C15_Witness ==
    /\ Len(ListRequests) = 3
    /\ Len(repos) = 2
    /\ repos[1].name = <<"b">>
    /\ repos[2].name = <<"a">>
    /\ Len(mirror_repos) = 2
    /\ mirror_repos[1].mirror_source # mirror_repos[2].mirror_source
    /\ Len(CloneCalls) = 2
    /\ CloneCalls[1].args[4] = mirror_repos[1].mirror_source

\* the phase of the run a position belongs to: Discover (the configuration
\* checks, the listing, the classification), Iterating, Reporting, Terminal
PhaseRank(position) ==
    CASE position \in {"main", "get_org_repos", "get_mirror_repos"} -> 1
      [] position \in {"sync_mirror", "push", "tally"} -> 2
      [] position = "summary" -> 3
      [] position = "exit" -> 4

(***************************************************************************)
(* C16. Phase order: no step moves the run to an earlier phase (Discover,  *)
(* Iterating, Reporting, Terminal) and no step leaves Terminal; metadata   *)
(* requests are made in Discover only, before any git command; git         *)
(* commands are run in Iterating only, and a clone is run only when the    *)
(* task before it has ended (its push ran, or its clone failed); the       *)
(* summary is reached only when every task of the work list was attempted  *)
(* and has ended.                                                          *)
(***************************************************************************)
C16_PhaseOrder ==
    [][ /\ PhaseRank(pc) <= PhaseRank(pc')
        /\ pc # "exit"
        /\ requests' # requests =>
              /\ PhaseRank(pc) = 1
              /\ calls = <<>>
              /\ calls' = <<>>
        /\ calls' # calls =>
              /\ PhaseRank(pc) = 2
              /\ PhaseRank(pc') = 2
              /\ Len(calls') = Len(calls) + 1
              /\ (calls'[Len(calls')].op = "clone" /\ calls # <<>>) =>
                    /\ calls[Len(calls)].task = calls'[Len(calls')].task - 1
                    /\ calls[Len(calls)].op = "push" \/ calls[Len(calls)].returncode # 0
        /\ PhaseRank(pc') >= 3 =>
              /\ calls' = calls
              /\ (PhaseRank(pc) >= 2 \/ CountPrinted(printed', "total") > 0) =>
                    /\ Len(CloneCalls) = Len(mirror_repos)
                    /\ \A t \in 1..Len(mirror_repos) : Succeeded(t) \/ Failed(t)
        /\ (PhaseRank(pc) = 1 /\ PhaseRank(pc') = 2) =>
              (DiscoveryCompleted' /\ mirror_repos' = mirror_repos /\ mirror_repos # <<>>)
        /\ PhaseRank(pc) >= 2 => UNCHANGED discovery ]_vars

\* a run went through the four phases: it listed and classified a
\* repository, synced two tasks, printed the summary and ended
C16_Witness ==
    /\ pc = "exit"
    /\ requests # <<>>
    /\ Len(mirror_repos) = 2
    /\ Len(CloneCalls) = 2
    /\ Len(PushCalls) >= 1
    /\ CountPrinted(printed, "total") = 1

\* "://", the separator between the scheme of a URL and the rest
SchemeSeparator == <<":", "/", "/">>

\* the position of the first scheme separator of url
FirstSeparator(url) ==
    CHOOSE k \in 1..Len(url) :
        /\ SubSeq(url, k, k + 2) = SchemeSeparator
        /\ \A m \in 1..(k - 1) : SubSeq(url, m, m + 2) # SchemeSeparator

\* url with "x-access-token:<token>@" as its user-info component: inserted
\* once, directly after the first scheme separator
WithUserInfo(url, token) ==
    LET k == FirstSeparator(url)
    IN  SubSeq(url, 1, k + 2)
        \o <<"x","-","a","c","c","e","s","s","-","t","o","k","e","n",":">> \o token \o <<"@">>
        \o SubSeq(url, k + 3, Len(url))

(***************************************************************************)
(* C17. Push destination construction: the URL of every git push is the    *)
(* clone URL of the task pushed, with the credential embedded once as the  *)
(* user-info component directly after the scheme separator, whatever the   *)
(* scheme of the clone URL.                                                *)
(***************************************************************************)
C17_PushDestination ==
    \A n \in DOMAIN calls :
        calls[n].op = "push" =>
            calls[n].args[6] = WithUserInfo(mirror_repos[calls[n].task].clone_url, github_token)

\* the tasks whose call of sync_mirror has returned: the push ran, or the
\* clone failed
Returned == {t \in 1..Len(mirror_repos) : Succeeded(t) \/ Failed(t)}

\* the counters count the tasks before position j: the successes among them
\* and the failures among them; these are all the tasks that have returned,
\* but for the one whose returned value is being counted
TallyMatches ==
    /\ success_count \in Nat
    /\ failure_count \in Nat
    /\ success_count = Cardinality({t \in 1..(j - 1) : Succeeded(t)})
    /\ failure_count = Cardinality({t \in 1..(j - 1) : Failed(t)})
    /\ success_count + failure_count = j - 1
    /\ success_count + failure_count =
          Cardinality(Returned) - (IF pc = "tally" THEN 1 ELSE 0)

Destination(url) ==
    Replace(url, <<"x","-","a","c","c","e","s","s","-","t","o","k","e","n",":">>
                 \o github_token \o <<"@">>, <<>>)

(***************************************************************************)
(* C19. Push safety: every git push goes to the clone URL of a listed      *)
(* repository that was classified with repo-type = "mirror" and a          *)
(* non-empty mirror-source, and it directly follows a git clone that       *)
(* exited with status 0, of that repository's mirror-source, into the      *)
(* directory the push reads from; no command of another task ever used     *)
(* that directory.                                                         *)
(***************************************************************************)
C19_PushSafety ==
    \A n \in DOMAIN calls :
        calls[n].op = "push" =>
            /\ n > 1
            /\ calls[n - 1].op = "clone"
            /\ calls[n - 1].returncode = 0
            /\ calls[n - 1].task = calls[n].task
            /\ calls[n - 1].args[5] = calls[n].args[3]
            /\ \A m \in DOMAIN calls :
                  (calls[m].op = "clone" /\ calls[m].args[5] = calls[n].args[3]) => m = n - 1
            /\ \E r \in DOMAIN props_log :
                  /\ Qualifies(props_log[r])
                  /\ Destination(calls[n].args[6]) = repos[r].clone_url
                  /\ calls[n - 1].args[4] = props_log[r]["mirror-source"]
                  /\ Cardinality(Qualifying(r)) = calls[n].task

\* of two listed repositories only the second is a mirror; it was cloned and
\* pushed, and nothing was pushed to the first
C19_Witness ==
    /\ Len(props_log) = 2
    /\ ~Qualifies(props_log[1])
    /\ Qualifies(props_log[2])
    /\ repos[1].clone_url # repos[2].clone_url
    /\ Len(calls) = 2
    /\ calls[2].op = "push"
    /\ calls[2].returncode = 0
    /\ Destination(calls[2].args[6]) = repos[2].clone_url

(***************************************************************************)
(* C20. Termination: when every call returns and the listing comes to an   *)
(* empty page, the run reaches its end.  The pagination loop is left only  *)
(* by an error status (the run ends) or by an empty page (the              *)
(* classification starts): every turn that is answered with a non-empty    *)
(* page extends repos, moves to the next page and stays in the loop, and   *)
(* while the run is in the loop no repository was classified and no git    *)
(* command was run.                                                        *)
(***************************************************************************)
C20_Termination ==
    /\ <>(pc = "exit")
    /\ [](pc = "get_org_repos" => (calls = <<>> /\ mirror_repos = <<>> /\ props_log = <<>>))
    /\ [][ pc = "get_org_repos" =>
              /\ Len(requests') = Len(requests) + 1
              /\ requests'[Len(requests')].kind = "list"
              /\ (requests'[Len(requests')].status = 200 /\ requests'[Len(requests')].body # <<>>)
                    => /\ pc' = "get_org_repos"
                       /\ page' = page + 1
                       /\ Len(repos') > Len(repos)
              /\ pc' # "get_org_repos" =>
                    \/ /\ requests'[Len(requests')].status # 200
                       /\ pc' = "exit"
                    \/ /\ requests'[Len(requests')].status = 200
                       /\ requests'[Len(requests')].body = <<>>
                       /\ pc' = "get_mirror_repos" ]_vars

\* a run that read two non-empty pages and the empty page, and synced two
\* tasks, has ended
C20_Witness ==
    /\ pc = "exit"
    /\ Len(ListRequests) = 3
    /\ ListRequests[3].body = <<>>
    /\ Len(CloneCalls) = 2
    /\ CountPrinted(printed, "failed") = 1

====
